---- MODULE Spec2Model ----
(***************************************************************************)
(* A model of gowatch: the Debouncer of internal/watcher, the command      *)
(* runner of internal/runner (Run, executeParallel, executeCommand,        *)
(* replacePlaceholders), the ignore predicate (Watcher.shouldIgnore,       *)
(* Config.ShouldIgnore) and the watch loop (Watcher.processEvents, Stop).  *)
(*                                                                         *)
(* Each subsystem has its own specification over the same variables:       *)
(*   SpecDebouncer   Debouncer.Add and the timer callbacks                 *)
(*   SpecRunner      one Runner.Run over a configured command list         *)
(*   SpecRunnerFair  the same, with the goroutines of Run scheduled and    *)
(*                   every started process ending                          *)
(*   SpecSubst       replacePlaceholders on chosen token lists             *)
(*   SpecIgnore      shouldIgnore on chosen paths and ignore patterns      *)
(*   SpecWatcher     the watch loop, Stop, cancellation and the debounced  *)
(*                   callbacks that send on the output channel             *)
(*   SpecShutdown    the same with few notifications, for the shutdown of  *)
(*                   the watch loop                                        *)
(*   SpecEvents      Watcher.Start and the body of the watch loop on raw   *)
(*                   notifications                                         *)
(*   SpecMain        the loop of runWatch that calls Run for every change  *)
(*                   event                                                 *)
(* A specification leaves the variables of the other subsystems at their   *)
(* initial value.                                                          *)
(***************************************************************************)
EXTENDS Integers, Sequences, FiniteSets, TLC

VARIABLES
    \* ---- Debouncer (watcher.go) ----
    timers,     \* d.timers: key -> timer id, 0 when the key has no entry
    pending,    \* d.pending: key -> action id, 0 when the key has no entry
    mu,         \* d.mu between two steps: 0 when free, else the timer whose callback holds it
    tstate,     \* per created timer: "armed", "stopped", "fired", "run", "done"
    tfn,        \* per created timer: the fn its callback read under the lock (0 = nil)
    addKey,     \* history: key of the n-th Add call (timer n and action n come from it)
    armedAt,    \* history: the timers that had not expired when the n-th Add was called
    executed,   \* history: the actions that have been invoked, in order
    \* ---- Runner (runner.go) ----
    rcfg,       \* the Runner and its configuration, fixed by New
    ctxDone,    \* the context given to Run has been cancelled
    rpc,        \* position of Run: "start", "seq", "par", "summary", "returned"
    seqIdx,     \* sequential mode: the loop index (next command to execute)
    wpc,        \* per command: position of its executeCommand call / parallel worker
    proc,       \* per command: state of the spawned process
    pipeHeld,   \* per command: a descendant of the process still holds the output pipes
    cmdCtxErr,  \* per command: why cmdCtx is done: "none", "deadline" or "canceled"
    sem,        \* number of slots taken in the semaphore channel
    results,    \* the result list of Run
    summary,    \* the summary Run logged: "none", "success" or "failed"
    waitedAtCancel, \* history: the workers that were waiting for a slot, the semaphore
                \* full, when the context was cancelled
    clog,       \* history, per command: the lines executeCommand wrote to the log:
                \* "start" (CommandStart), "error" (Error), "end" (CommandEnd)
    \* ---- replacePlaceholders ----
    subIn,      \* the arguments of the call: [cmd, path, event]
    subDone,    \* replacePlaceholders has returned
    subOut,     \* the list it returned
    \* ---- shouldIgnore ----
    ignIn,      \* the build target, the configuration, the .gowatchignore file beside
                \* the path and the argument: [goos, watch, file, path]
    ignDone,    \* shouldIgnore has returned
    ignOut,     \* the value it returned
    \* ---- Watcher (watcher.go): processEvents, Stop and the debounced callbacks ----
    wctxDone,   \* the context given to Start has been cancelled
    fsClosed,   \* w.fsWatcher is closed: its Events and Errors channels are closed
    stopped,    \* history: a call of Stop() has returned
    loop,       \* position of processEvents: "idle", "running" or "returned"
    outClosed,  \* the output channel has been closed
    out,        \* the events buffered in the output channel
    sent,       \* history: the events sent on the output channel, with the moment
    panicked,   \* the process has panicked
    \* ---- Watcher (watcher.go): processEvents on one notification after the other ----
    ev,         \* the notification being processed: [name, ops, isDir], or NoEvent
    epc,        \* position of Start ("start", "failed") and of the loop body ("recv",
                \* "filter", "ignored", "skipped", "create", "debounce"); "off" before
    watched,    \* w.watched: the paths addSingle has recorded
    registered, \* the paths the OS facility reports on (fsWatcher.Add succeeded)
    wpi,        \* Start: the index of the next watch path given to addPath
    osCalls,    \* history: per path, the number of calls of w.fsWatcher.Add
    \* ---- runWatch (main.go): the loop over the change events ----
    mq,         \* the number of change events waiting in the channel events
    eventCount, \* eventCount: the change events the loop has received
    runCalls,   \* history: the calls of r.Run the loop has made
    mainExit    \* runWatch has returned

dvars == <<timers, pending, mu, tstate, tfn, addKey, armedAt, executed>>
rvars == <<rcfg, ctxDone, rpc, seqIdx, wpc, proc, pipeHeld, cmdCtxErr, sem, results,
           summary, waitedAtCancel, clog>>
svars == <<subIn, subDone, subOut>>
ivars == <<ignIn, ignDone, ignOut>>
wvars == <<wctxDone, fsClosed, stopped, loop, outClosed, out, sent, panicked>>
evars == <<ev, epc, watched, registered, wpi, osCalls>>
mvars == <<mq, eventCount, runCalls, mainExit>>
vars  == <<dvars, rvars, svars, ivars, wvars, evars, mvars>>

(***************************************************************************)
(* Strings are sequences of one-character strings, so that prefix, suffix, *)
(* substring and glob matching are computed character by character.        *)
(***************************************************************************)
HasPrefix(s, p) == Len(p) <= Len(s) /\ SubSeq(s, 1, Len(p)) = p

HasSuffix(s, p) == Len(p) <= Len(s) /\ SubSeq(s, Len(s) - Len(p) + 1, Len(s)) = p

\* the positions at which sub occurs in s
Occurrences(s, sub) ==
    {i \in 1..(Len(s) - Len(sub) + 1) : SubSeq(s, i, i + Len(sub) - 1) = sub}

Contains(s, sub) == Len(sub) = 0 \/ Occurrences(s, sub) # {}

TrimSuffix(s, p) == IF HasSuffix(s, p) THEN SubSeq(s, 1, Len(s) - Len(p)) ELSE s

TrimPrefix(s, p) == IF HasPrefix(s, p) THEN SubSeq(s, Len(p) + 1, Len(s)) ELSE s

\* strings.ReplaceAll for a non-empty old: non-overlapping occurrences, left to right
RECURSIVE ReplaceAll(_, _, _)
ReplaceAll(s, old, new) ==
    IF Len(s) < Len(old) THEN s
    ELSE IF SubSeq(s, 1, Len(old)) = old
         THEN new \o ReplaceAll(SubSeq(s, Len(old) + 1, Len(s)), old, new)
         ELSE <<s[1]>> \o ReplaceAll(Tail(s), old, new)

(***************************************************************************)
(* Debouncer                                                               *)
(***************************************************************************)
Keys == {"k1", "k2"}

\* bound: the number of Add calls of a run
MaxAdds == 3

NoTimer == 0

Timers == 1..Len(addKey)

\* the timer stored for key k (d.timers[key]), NoTimer if the key has no entry
ExistingTimerWrongKey(k) == timers[CHOOSE j \in Keys : j # k]

ExistingTimer(k) == timers[k]

\* timer.Stop(): an armed timer is stopped; a timer that has expired is not affected
StopTimer(ts, t) ==
    IF t # NoTimer /\ ts[t] = "armed" THEN [ts EXCEPT ![t] = "stopped"] ELSE ts

\* d.mu.Lock() can proceed
LockFree == mu = 0

\* Debouncer.Add(key, fn): the whole call runs under d.mu, which the deferred Unlock
\* frees when it returns
AddCall(k) ==
    /\ Len(addKey) < MaxAdds
    /\ LockFree
    /\ LET n   == Len(addKey) + 1
           old == ExistingTimer(k)
       IN /\ tstate' = Append(StopTimer(tstate, old), "armed")
          /\ pending' = [pending EXCEPT ![k] = n]
          /\ timers' = [timers EXCEPT ![k] = n]
          /\ addKey' = Append(addKey, k)
          /\ armedAt' = Append(armedAt, {t \in Timers : tstate[t] = "armed"})
          /\ tfn' = Append(tfn, 0)
    /\ UNCHANGED <<mu, executed>>

\* a call of Add on its own
Add(k) == AddCall(k) /\ UNCHANGED <<rvars, svars, ivars, wvars, evars, mvars>>

\* the delay of timer t elapses: the runtime starts its callback in a goroutine.
\* All timers have the same delay, so they expire in the order of their creation.
Expire(t) ==
    /\ tstate[t] = "armed"
    /\ \A u \in Timers : u < t => tstate[u] # "armed"
    /\ tstate' = [tstate EXCEPT ![t] = "fired"]
    /\ UNCHANGED <<timers, pending, mu, tfn, addKey, armedAt, executed, rvars, svars, ivars,
                   wvars, evars, mvars>>

\* fn := d.pending[key], read before the entries are deleted
PendingFnAfterDelete(k) == [pending EXCEPT ![k] = 0][k]

PendingFn(k) == pending[k]

\* the holder of d.mu when the callback goes on to call fn: d.mu.Unlock() comes first
HolderWithoutUnlock(t) == t

HolderAfterUnlock(t) == 0

\* d.timers after delete(d.timers, key)
TimersKept(k) == timers

TimersAfterDelete(k) == [timers EXCEPT ![k] = NoTimer]

\* the locked part of the callback: read and delete the entries of the key
Release(t) ==
    /\ tstate[t] = "fired"
    /\ LockFree
    /\ mu' = HolderAfterUnlock(t)
    /\ LET k == addKey[t]
       IN /\ tfn' = [tfn EXCEPT ![t] = PendingFn(k)]
          /\ pending' = [pending EXCEPT ![k] = 0]
          /\ timers' = TimersAfterDelete(k)
    /\ tstate' = [tstate EXCEPT ![t] = "run"]
    /\ UNCHANGED <<addKey, armedAt, executed, rvars, svars, ivars, wvars, evars, mvars>>

\* the unlocked part of the callback: if fn != nil { fn() }
Invoke(t) ==
    /\ tstate[t] = "run"
    /\ executed' = IF tfn[t] # 0 THEN Append(executed, tfn[t]) ELSE executed
    /\ tstate' = [tstate EXCEPT ![t] = "done"]
    /\ UNCHANGED <<timers, pending, mu, tfn, addKey, armedAt, rvars, svars, ivars, wvars,
                   evars, mvars>>

\* NewDebouncer: empty maps, no timer created
InitDebouncer ==
    /\ timers = [k \in Keys |-> NoTimer]
    /\ pending = [k \in Keys |-> 0]
    /\ mu = 0
    /\ tstate = <<>>
    /\ tfn = <<>>
    /\ addKey = <<>>
    /\ armedAt = <<>>
    /\ executed = <<>>

(***************************************************************************)
(* Runner                                                                  *)
(***************************************************************************)
PathPH == <<"{", "p", "a", "t", "h", "}">>

EventPH == <<"{", "e", "v", "e", "n", "t", "}">>

\* Runner.replacePlaceholders: {path} is replaced first, then {event}, in every token
replacePlaceholders(cmd, path, event) ==
    [i \in 1..Len(cmd) |-> ReplaceAll(ReplaceAll(cmd[i], PathPH, path), EventPH, event)]

\* bound: the number of configured commands
MaxCmds == 2

\* bound: the largest max_concurrency
MaxSlots == 2

\* the change event a Run is called for
RunPath == <<"/", "t", ".", "g", "o">>

RunEvent == <<"W", "R", "I", "T", "E">>

\* the i-th configured command: ["c<i>", "{path}"], or an empty token list
ConfigCommand(i, tag, empty) ==
    [Cmd     |-> IF empty THEN <<>> ELSE << <<"c", ToString(i)>>, PathPH >>,
     Run     |-> tag,
     Timeout |-> IF i = 1 THEN "" ELSE "100ms"]

RunTags == {"sequential", "parallel"}

\* the configurations a Runner is built for: config.Config and the two CLI flags
Configs ==
    { [sequential     |-> s,
       dryRun         |-> d,
       MaxConcurrency |-> m,
       Commands       |-> [i \in 1..n |-> ConfigCommand(i, tag, i = e)]] :
      s \in BOOLEAN, d \in BOOLEAN, m \in 1..MaxSlots, n \in 0..MaxCmds,
      tag \in RunTags, e \in 0..1 }

NCmds == Len(rcfg.Commands)

Cmds == 1..NCmds

\* the zero value of RunResult
ZeroResult == [Command |-> <<>>, ExitCode |-> 0, Error |-> "nil"]

Result(i, code, err) ==
    [Command  |-> replacePlaceholders(rcfg.Commands[i].Cmd, RunPath, RunEvent),
     ExitCode |-> code,
     Error    |-> err]

\* gctx of executeParallel is done when the context given to Run is: the workers
\* return nil after executeCommand, so the errgroup never cancels gctx itself
gctxDoneOnFailure == ctxDone \/ \E i \in 1..Len(results) : results[i].Error # "nil"

gctxDone == ctxDone

\* the context executeCommand is called with: ctx by the loop of Run, gctx by a worker
RunCtxDone == IF rcfg.sequential THEN ctxDone ELSE gctxDone

\* New, and the state in which Run is called
InitRunner ==
    /\ rcfg \in Configs
    /\ ctxDone = FALSE
    /\ rpc = "start"
    /\ seqIdx = 1
    /\ wpc = [i \in 1..Len(rcfg.Commands) |-> "idle"]
    /\ proc = [i \in 1..Len(rcfg.Commands) |-> "none"]
    /\ pipeHeld = [i \in 1..Len(rcfg.Commands) |-> FALSE]
    /\ cmdCtxErr = [i \in 1..Len(rcfg.Commands) |-> "none"]
    /\ sem = 0
    /\ results = <<>>
    /\ summary = "none"
    /\ waitedAtCancel = {}
    /\ clog = [i \in 1..Len(rcfg.Commands) |-> <<>>]

\* the workers of executeParallel that are blocked in their select: the semaphore is
\* full and the context is not done
WaitingForSlot ==
    {i \in 1..Len(wpc) : rpc = "par" /\ wpc[i] = "select" /\ sem >= rcfg.MaxConcurrency}

\* the caller cancels the context it gave to Run (main.go: cancel() on a signal)
Cancel ==
    /\ rpc # "returned"
    /\ ~ctxDone
    /\ ctxDone' = TRUE
    /\ waitedAtCancel' = WaitingForSlot
    /\ UNCHANGED <<rcfg, clog, rpc, seqIdx, wpc, proc, pipeHeld, cmdCtxErr, sem, results,
                   summary, dvars, svars, ivars, wvars, evars, mvars>>

\* Run up to the choice of the mode
RunStart ==
    /\ rpc = "start"
    /\ IF NCmds = 0
       THEN /\ rpc' = "returned"
            /\ UNCHANGED <<results, wpc>>
       ELSE IF rcfg.sequential
       THEN /\ rpc' = "seq"
            /\ UNCHANGED <<results, wpc>>
       ELSE /\ rpc' = "par"
            /\ results' = [i \in Cmds |-> ZeroResult]
            /\ wpc' = [i \in Cmds |-> "select"]
    /\ UNCHANGED <<rcfg, waitedAtCancel, clog, ctxDone, seqIdx, proc, pipeHeld, cmdCtxErr, sem,
                   summary, dvars, svars, ivars, wvars, evars, mvars>>

\* sem <- struct{}{} can proceed: the channel has capacity MaxConcurrency
SlotFreeOffByOne == sem <= rcfg.MaxConcurrency

SlotFree == sem < rcfg.MaxConcurrency

\* a worker of executeParallel takes the first case of its select
Acquire(i) ==
    /\ rpc = "par"
    /\ wpc[i] = "select"
    /\ SlotFree
    /\ sem' = sem + 1
    /\ wpc' = [wpc EXCEPT ![i] = "call"]
    /\ UNCHANGED <<rcfg, waitedAtCancel, clog, ctxDone, rpc, seqIdx, proc, pipeHeld, cmdCtxErr,
                   results, summary, dvars, svars, ivars, wvars, evars, mvars>>

\* a worker of executeParallel takes the second case of its select
Abandon(i) ==
    /\ rpc = "par"
    /\ wpc[i] = "select"
    /\ gctxDone
    /\ wpc' = [wpc EXCEPT ![i] = "abandoned"]
    /\ UNCHANGED <<rcfg, waitedAtCancel, clog, ctxDone, rpc, seqIdx, proc, pipeHeld, cmdCtxErr,
                   sem, results, summary, dvars, svars, ivars, wvars, evars, mvars>>

\* the test that ends the sequential chain
ChainStopsPositive(r) == r.Error # "nil" /\ r.ExitCode > 0

ChainStops(r) == r.Error # "nil" /\ r.ExitCode # 0

\* the slot of the result list a parallel worker writes
ResultSlotFirstCome(i) == 1 + Cardinality({j \in Cmds : wpc[j] \in {"finished", "done"}})

ResultSlot(i) == i

\* executeCommand is called for command i: by the loop of Run in sequential mode,
\* by the worker that holds a slot in parallel mode
CallReadyAnyIdle(i) ==
    IF rcfg.sequential
    THEN rpc = "seq" /\ wpc[i] = "idle"
    ELSE rpc = "par" /\ wpc[i] = "call"

CallReady(i) ==
    IF rcfg.sequential
    THEN rpc = "seq" /\ seqIdx = i /\ wpc[i] = "idle"
    ELSE rpc = "par" /\ wpc[i] = "call"

\* executeCommand returns r for command i and the caller stores it
Return(i, r) ==
    IF rcfg.sequential
    THEN /\ results' = Append(results, r)
         /\ wpc' = [wpc EXCEPT ![i] = "done"]
         /\ IF ChainStops(r) \/ i = NCmds
            THEN rpc' = "summary" /\ seqIdx' = seqIdx
            ELSE rpc' = rpc /\ seqIdx' = i + 1
    ELSE /\ results' = [results EXCEPT ![ResultSlot(i)] = r]
         /\ wpc' = [wpc EXCEPT ![i] = "finished"]
         /\ UNCHANGED <<rpc, seqIdx>>

DryRunOff == FALSE

DryRun == rcfg.dryRun

\* executeCommand in dry-run mode
ExecDryRun(i) ==
    /\ CallReady(i)
    /\ DryRun
    /\ Return(i, Result(i, 0, "nil"))
    /\ UNCHANGED <<rcfg, waitedAtCancel, clog, ctxDone, proc, pipeHeld, cmdCtxErr, sem, summary,
                   dvars, svars, ivars, wvars, evars, mvars>>

\* the validation of executeCommand: len(cmdWithPlaceholders) == 0
IsEmptyCommandNever(i) == FALSE

IsEmptyCommand(i) == Len(replacePlaceholders(rcfg.Commands[i].Cmd, RunPath, RunEvent)) = 0

\* executeCommand with an empty token list
ExecEmpty(i) ==
    /\ CallReady(i)
    /\ ~DryRun
    /\ IsEmptyCommand(i)
    /\ Return(i, Result(i, -1, "empty command"))
    /\ clog' = [clog EXCEPT ![i] = @ \o <<"start">>]
    /\ UNCHANGED <<rcfg, waitedAtCancel, ctxDone, proc, pipeHeld, cmdCtxErr, sem, summary,
                   dvars, svars, ivars, wvars, evars, mvars>>

SetupErrors ==
    {"failed to get stdout pipe", "failed to get stderr pipe", "failed to start command"}

\* executeCommand when a pipe cannot be made or the process cannot be started
ExecSetupFails(i, err) ==
    /\ CallReady(i)
    /\ ~DryRun
    /\ ~IsEmptyCommand(i)
    /\ Return(i, Result(i, -1, err))
    /\ clog' = [clog EXCEPT ![i] = @ \o <<"start", "error">>]
    /\ UNCHANGED <<rcfg, waitedAtCancel, ctxDone, proc, pipeHeld, cmdCtxErr, sem, summary,
                   dvars, svars, ivars, wvars, evars, mvars>>

\* executeCommand starts the process (Start fails when its context is already done);
\* forks: the command leaves a descendant that inherits the output pipes
ExecStart(i, forks) ==
    /\ CallReady(i)
    /\ ~DryRun
    /\ ~IsEmptyCommand(i)
    /\ ~RunCtxDone
    /\ proc' = [proc EXCEPT ![i] = "running"]
    /\ pipeHeld' = [pipeHeld EXCEPT ![i] = forks]
    /\ wpc' = [wpc EXCEPT ![i] = "streaming"]
    /\ clog' = [clog EXCEPT ![i] = @ \o <<"start">>]
    /\ UNCHANGED <<rcfg, waitedAtCancel, ctxDone, rpc, seqIdx, cmdCtxErr, sem, results, summary,
                   dvars, svars, ivars, wvars, evars, mvars>>

\* the process exits by itself with the given code
ProcExit(i, code) ==
    /\ wpc[i] = "streaming"
    /\ proc[i] = "running"
    /\ proc' = [proc EXCEPT ![i] = IF code = 0 THEN "exit0" ELSE "exit1"]
    /\ UNCHANGED <<rcfg, waitedAtCancel, clog, ctxDone, rpc, seqIdx, wpc, pipeHeld, cmdCtxErr,
                   sem, results, summary, dvars, svars, ivars, wvars, evars, mvars>>

\* cmdCtx is done: exec.CommandContext kills the process (not its descendants)
KillNothing(i, why) ==
    /\ cmdCtxErr' = [cmdCtxErr EXCEPT ![i] = why]
    /\ proc' = proc

KillProcess(i, why) ==
    /\ cmdCtxErr' = [cmdCtxErr EXCEPT ![i] = why]
    /\ proc' = [proc EXCEPT ![i] = IF @ = "running" THEN "killed" ELSE @]

\* the timeout of the command expires
Deadline(i) ==
    /\ wpc[i] = "streaming"
    /\ cmdCtxErr[i] = "none"
    /\ KillProcess(i, "deadline")
    /\ UNCHANGED <<rcfg, waitedAtCancel, clog, ctxDone, rpc, seqIdx, wpc, pipeHeld, sem,
                   results, summary,
                   dvars, svars, ivars, wvars, evars, mvars>>

\* the cancellation of the context of Run reaches cmdCtx
CancelCommand(i) ==
    /\ wpc[i] = "streaming"
    /\ cmdCtxErr[i] = "none"
    /\ RunCtxDone
    /\ KillProcess(i, "canceled")
    /\ UNCHANGED <<rcfg, waitedAtCancel, clog, ctxDone, rpc, seqIdx, wpc, pipeHeld, sem,
                   results, summary,
                   dvars, svars, ivars, wvars, evars, mvars>>

\* the last descendant that holds the output pipes exits or closes them
DescendantExit(i) ==
    /\ wpc[i] = "streaming"
    /\ pipeHeld[i]
    /\ pipeHeld' = [pipeHeld EXCEPT ![i] = FALSE]
    /\ UNCHANGED <<rcfg, waitedAtCancel, clog, ctxDone, rpc, seqIdx, wpc, proc, cmdCtxErr, sem,
                   results, summary, dvars, svars, ivars, wvars, evars, mvars>>

\* wg.Wait() returns when both pipes are at end of file, command.Wait() when the
\* process has ended
ReturnReady(i) == proc[i] # "running" /\ ~pipeHeld[i]

\* the result built from the error of command.Wait()
WaitResult(i) ==
    CASE proc[i] = "killed" -> Result(i, -1, "signal: killed")
      [] proc[i] = "exit1"  -> Result(i, 1, "exit status 1")
      [] proc[i] = "exit0" /\ cmdCtxErr[i] # "none" -> Result(i, -1, "context done")
      [] OTHER -> Result(i, 0, "nil")

\* executeCommand returns after the output has been read and the process waited for
ExecReturn(i) ==
    /\ wpc[i] = "streaming"
    /\ ReturnReady(i)
    /\ Return(i, WaitResult(i))
    /\ clog' = [clog EXCEPT ![i] = @ \o <<"end">>]
    /\ UNCHANGED <<rcfg, waitedAtCancel, ctxDone, proc, pipeHeld, cmdCtxErr, sem, summary,
                   dvars, svars, ivars, wvars, evars, mvars>>

\* the deferred <-sem of a worker
ReleaseSlot(i) ==
    /\ wpc[i] = "finished"
    /\ sem' = sem - 1
    /\ wpc' = [wpc EXCEPT ![i] = "done"]
    /\ UNCHANGED <<rcfg, waitedAtCancel, clog, ctxDone, rpc, seqIdx, proc, pipeHeld, cmdCtxErr,
                   results, summary, dvars, svars, ivars, wvars, evars, mvars>>

\* the condition g.Wait() waits for: every goroutine started with g.Go has returned
SomeWorkerReturned == \E i \in Cmds : wpc[i] \in {"done", "abandoned"}

WorkersReturned == \A i \in Cmds : wpc[i] \in {"done", "abandoned"}

\* g.Wait() returns: every worker has returned
ParallelJoin ==
    /\ rpc = "par"
    /\ WorkersReturned
    /\ rpc' = "summary"
    /\ UNCHANGED <<rcfg, waitedAtCancel, clog, ctxDone, seqIdx, wpc, proc, pipeHeld, cmdCtxErr,
                   sem, results, summary, dvars, svars, ivars, wvars, evars, mvars>>

\* the number of results with exit code 0
successCount == Cardinality({i \in 1..Len(results) : results[i].ExitCode = 0})

\* the summary of Run, and its return
RunSummary ==
    /\ rpc = "summary"
    /\ summary' = IF successCount = Len(results) THEN "success" ELSE "failed"
    /\ rpc' = "returned"
    /\ UNCHANGED <<rcfg, waitedAtCancel, clog, ctxDone, seqIdx, wpc, proc, pipeHeld, cmdCtxErr,
                   sem, results, dvars, svars, ivars, wvars, evars, mvars>>

(***************************************************************************)
(* replacePlaceholders on its own                                          *)
(***************************************************************************)
\* bound: the number of tokens of a command
MaxTokens == 2

\* "echo", "{path}", "--e={event}", "{path}:{path}", "{event}{path}"
SubTokens ==
    { <<"e", "c", "h", "o">>,
      PathPH, <<"-", "-", "e", "=">> \o EventPH,
      PathPH \o <<":">> \o PathPH,
      EventPH \o PathPH }

\* "/t.go", "/{event}.go", "/a{path}"
SubPaths ==
    { RunPath,
      <<"/">> \o EventPH \o <<".", "g", "o">>,
      <<"/", "a">> \o PathPH }

\* "WRITE", "CREATE"
SubEvents == { RunEvent, <<"C", "R", "E", "A", "T", "E">> }

SubCmds == UNION {[1..n -> SubTokens] : n \in 0..MaxTokens}

InitSubst ==
    /\ subIn \in [cmd : SubCmds, path : SubPaths, event : SubEvents]
    /\ subDone = FALSE
    /\ subOut = <<>>

\* the call r.replacePlaceholders(cmd, path, event); cmd itself is only read
Substitute ==
    /\ ~subDone
    /\ subOut' = replacePlaceholders(subIn.cmd, subIn.path, subIn.event)
    /\ subDone' = TRUE
    /\ UNCHANGED <<subIn, dvars, rvars, ivars, wvars, evars, mvars>>

(***************************************************************************)
(* shouldIgnore                                                            *)
(***************************************************************************)
\* os.IsPathSeparator for the build target
IsSep(c, goos) == c = "/" \/ (goos = "windows" /\ c = "\\")

\* filepath.ToSlash
ToSlash(s, goos) ==
    IF goos = "windows" THEN [i \in 1..Len(s) |-> IF s[i] = "\\" THEN "/" ELSE s[i]] ELSE s

RECURSIVE StripTrailingSeps(_, _)
StripTrailingSeps(s, goos) ==
    IF Len(s) > 0 /\ IsSep(s[Len(s)], goos)
    THEN StripTrailingSeps(SubSeq(s, 1, Len(s) - 1), goos)
    ELSE s

\* filepath.Base, for paths without a volume name
Base(path, goos) ==
    IF Len(path) = 0 THEN <<".">>
    ELSE LET p    == StripTrailingSeps(path, goos)
             seps == {i \in 1..Len(p) : IsSep(p[i], goos)}
             last == IF seps = {} THEN 0 ELSE CHOOSE i \in seps : \A j \in seps : j <= i
             b    == SubSeq(p, last + 1, Len(p))
         IN IF Len(b) = 0 THEN <<(IF goos = "windows" THEN "\\" ELSE "/")>> ELSE b

\* filepath.Match for patterns made of literal characters, '*' and '?':
\* '*' matches any run of characters that are not filepath.Separator
RECURSIVE MatchFrom(_, _, _, _, _)
MatchFrom(pat, i, name, j, sep) ==
    IF i > Len(pat) THEN j > Len(name)
    ELSE IF pat[i] = "*"
         THEN \/ MatchFrom(pat, i + 1, name, j, sep)
              \/ j <= Len(name) /\ name[j] # sep /\ MatchFrom(pat, i, name, j + 1, sep)
         ELSE /\ j <= Len(name)
              /\ (pat[i] = "?" /\ name[j] # sep) \/ pat[i] = name[j]
              /\ MatchFrom(pat, i + 1, name, j + 1, sep)

Match(pat, name, goos) ==
    MatchFrom(pat, 1, name, 1, IF goos = "windows" THEN "\\" ELSE "/")

\* strings.Split(s, sep) for a non-empty sep
RECURSIVE Split(_, _)
Split(s, sep) ==
    IF Occurrences(s, sep) = {} THEN <<s>>
    ELSE LET i == CHOOSE k \in Occurrences(s, sep) : \A l \in Occurrences(s, sep) : k <= l
         IN <<SubSeq(s, 1, i - 1)>> \o Split(SubSeq(s, i + Len(sep), Len(s)), sep)

\* the "**" branch of Config.ShouldIgnore
DoubleStarMatches(pattern, path) ==
    /\ Contains(pattern, <<"*", "*">>)
    /\ LET parts == Split(pattern, <<"*", "*">>)
       IN /\ Len(parts) = 2
          /\ LET prefix == TrimSuffix(parts[1], <<"/">>)
                 suffix == TrimPrefix(parts[2], <<"/">>)
             IN /\ Len(prefix) = 0 \/ HasPrefix(path, prefix)
                /\ Len(suffix) = 0 \/ HasSuffix(path, suffix) \/ Contains(path, suffix)

\* the directory-pattern branch of Config.ShouldIgnore
DirPatternMatches(pattern, path) ==
    /\ HasSuffix(pattern, <<"/">>)
    /\ LET dirPattern == TrimSuffix(pattern, <<"/">>)
       IN HasPrefix(path, dirPattern \o <<"/">>) \/ path = dirPattern

\* the body of the loops of Config.ShouldIgnore for one pattern
PatternIgnores(rawPattern, path, base, goos) ==
    LET pattern == ToSlash(rawPattern, goos)
    IN \/ Match(pattern, base, goos)
       \/ Match(pattern, path, goos)
       \/ DoubleStarMatches(pattern, path)
       \/ DirPatternMatches(pattern, path)

\* Config.ShouldIgnore
ConfigShouldIgnore(watch, rawPath, goos) ==
    LET path == ToSlash(rawPath, goos)
        base == Base(path, goos)
    IN \E w \in 1..Len(watch) : \E p \in 1..Len(watch[w].Ignore) :
           PatternIgnores(watch[w].Ignore[p], path, base, goos)

\* "$RECYCLE.BIN", "System Volume Information", "$Recycle.Bin"
systemFolders ==
    { <<"$", "R", "E", "C", "Y", "C", "L", "E", ".", "B", "I", "N">>,
      <<"S", "y", "s", "t", "e", "m", " ", "V", "o", "l", "u", "m", "e", " ",
        "I", "n", "f", "o", "r", "m", "a", "t", "i", "o", "n">>,
      <<"$", "R", "e", "c", "y", "c", "l", "e", ".", "B", "i", "n">> }

\* the dotfile test of Watcher.shouldIgnore
IsDotfile(base) == HasPrefix(base, <<".">>) /\ base # <<".">>

\* the .gowatchignore branch of Watcher.shouldIgnore: os.Stat tells whether the file
\* exists; the body of the branch is empty, so the file is never read and the branch
\* never returns
IgnoreFileIgnores(file, path) == file.exists /\ FALSE

\* Watcher.shouldIgnore
shouldIgnore(watch, file, path, goos) ==
    LET base == Base(path, goos)
    IN \/ IsDotfile(base)
       \/ /\ goos = "windows"
          /\ \/ HasPrefix(base, <<"~", "$">>)
             \/ HasSuffix(base, <<".", "l", "n", "k">>)
             \/ \E folder \in systemFolders : Contains(path, folder)
       \/ ConfigShouldIgnore(watch, path, goos)
       \/ IgnoreFileIgnores(file, path)

\* path segments and patterns of the chosen inputs
SegTmp == <<"t", "m", "p">>

SegVendor == <<"v", "e", "n", "d", "o", "r">>

SegGit == <<".", "g", "i", "t">>

SegNodeModules == <<"n", "o", "d", "e", "_", "m", "o", "d", "u", "l", "e", "s">>

ExtTmp == <<".", "t", "m", "p">>

ExtGo == <<".", "g", "o">>

Sl == <<"/">>

\* "*.tmp", "vendor/**", ".git/**": the patterns of TestWatcher_ShouldIgnore
TestIgnore == << <<"*">> \o ExtTmp, SegVendor \o <<"/", "*", "*">>, SegGit \o <<"/", "*", "*">> >>

WatchPath(path, recursive, ignore) == [Path |-> path, Recursive |-> recursive, Ignore |-> ignore]

\* the watch root /tmp of TestWatcher_ShouldIgnore
TestWatch == << WatchPath(Sl \o SegTmp, FALSE, TestIgnore) >>

\* the watch root /tmp with the documented pattern "**/*.tmp"
DocTmpWatch == << WatchPath(Sl \o SegTmp, TRUE, << <<"*", "*", "/", "*">> \o ExtTmp >>) >>

\* the watch root /tmp with the documented pattern "**/node_modules/**"
DocNodeModulesWatch ==
    << WatchPath(Sl \o SegTmp, TRUE,
                 << <<"*", "*", "/">> \o SegNodeModules \o <<"/", "*", "*">> >>) >>

\* the watch root /tmp without ignore patterns
NoIgnoreWatch == << WatchPath(Sl \o SegTmp, TRUE, <<>>) >>

\* the configurations shouldIgnore is called under
IgnoreConfigs ==
    { TestWatch,
      DocTmpWatch, DocNodeModulesWatch,
      << WatchPath(<<".">>, TRUE, << SegVendor \o Sl >>) >>,
      NoIgnoreWatch, << WatchPath(Sl \o SegTmp, TRUE, << <<"*", ".", "l", "o", "g">> >>),
         WatchPath(<<"/", "s", "r", "v">>, TRUE, <<>>) >> }

\* the paths shouldIgnore is called with
IgnorePaths ==
    { Sl \o SegTmp \o <<"/", "t", "e", "s", "t">> \o ExtGo,
      Sl \o SegTmp \o <<"/", "t", "e", "s", "t">> \o ExtTmp,
      Sl \o SegTmp \o <<"/", ".", "h", "i", "d", "d", "e", "n">>,
      Sl \o SegTmp \o Sl \o SegVendor \o <<"/", "p", "k", "g">>,
      Sl \o SegTmp \o Sl \o SegGit \o <<"/", "c", "o", "n", "f", "i", "g">>,
      Sl \o SegTmp \o <<"/", "n", "o", "r", "m", "a", "l", "/", "f", "i", "l", "e">> \o ExtGo,
      Sl \o SegTmp \o <<"/", "a", "/", "x">> \o ExtTmp,
      Sl \o SegTmp \o Sl \o SegVendor,
      SegVendor \o <<"/", "p", "k", "g">>,
      Sl \o SegTmp \o Sl \o SegNodeModules \o <<"/", "x", ".", "j", "s">>,
      Sl \o SegTmp \o <<"/", "a">> \o Sl \o SegNodeModules \o <<"/", "b">>,
      Sl \o SegTmp \o <<"/", "x", ".", "l", "o", "g">>,
      <<"/", "s", "r", "v", "/", "x", ".", "l", "o", "g">>,
      Sl \o SegTmp \o <<"/", "a", ".", "l", "n", "k">>,
      Sl \o SegTmp \o <<"/", "~", "$", "d", "o", "c">> }

\* no .gowatchignore in the directory of the path
NoIgnoreFile == [exists |-> FALSE, patterns |-> <<>>]

\* a .gowatchignore as gowatch init writes it: "*.tmp", "*.log"
ExampleIgnoreFile ==
    [exists |-> TRUE, patterns |-> << <<"*">> \o ExtTmp, <<"*", ".", "l", "o", "g">> >>]

InitIgnore ==
    /\ ignIn \in [goos : {"linux", "windows"}, watch : IgnoreConfigs,
                  file : {NoIgnoreFile, ExampleIgnoreFile}, path : IgnorePaths]
    /\ ignDone = FALSE
    /\ ignOut = FALSE

\* the call w.shouldIgnore(path)
CheckIgnore ==
    /\ ~ignDone
    /\ ignOut' = shouldIgnore(ignIn.watch, ignIn.file, ignIn.path, ignIn.goos)
    /\ ignDone' = TRUE
    /\ UNCHANGED <<ignIn, dvars, rvars, svars, wvars, evars, mvars>>

(***************************************************************************)
(* Watcher: the watch loop, Stop and the callbacks given to the Debouncer   *)
(***************************************************************************)
\* bound: the capacity of the output channel (make(chan Event, 100)), scaled down
OutCap == 1

\* Start has returned: processEvents runs, nothing has happened yet
InitWatcher ==
    /\ wctxDone = FALSE
    /\ fsClosed = FALSE
    /\ stopped = FALSE
    /\ loop = "running"
    /\ outClosed = FALSE
    /\ out = <<>>
    /\ sent = <<>>
    /\ panicked = FALSE

\* the caller of Start cancels the context (main.go: cancel() on a signal)
WCancel ==
    /\ ~wctxDone
    /\ wctxDone' = TRUE
    /\ UNCHANGED <<fsClosed, stopped, loop, outClosed, out, sent, panicked,
                   dvars, rvars, svars, ivars, evars, mvars>>

\* Watcher.Stop(): closes the fsnotify watcher and returns
Stop ==
    /\ ~stopped
    /\ fsClosed' = TRUE
    /\ stopped' = TRUE
    /\ UNCHANGED <<wctxDone, loop, outClosed, out, sent, panicked,
                   dvars, rvars, svars, ivars, evars, mvars>>

\* processEvents, case <-ctx.Done(): closes the fsnotify watcher and returns; the
\* deferred close(output) runs
LoopCancelledNoClose ==
    /\ loop = "running"
    /\ wctxDone
    /\ loop' = "returned"
    /\ UNCHANGED <<wctxDone, fsClosed, stopped, outClosed, out, sent, panicked,
                   dvars, rvars, svars, ivars, evars, mvars>>

LoopCancelled ==
    /\ loop = "running"
    /\ wctxDone
    /\ fsClosed' = TRUE
    /\ outClosed' = TRUE
    /\ loop' = "returned"
    /\ UNCHANGED <<wctxDone, stopped, out, sent, panicked, dvars, rvars, svars, ivars,
                   evars, mvars>>

\* processEvents, a receive from Events or Errors that finds the channel closed:
\* returns; the deferred close(output) runs
LoopChannelClosed ==
    /\ loop = "running"
    /\ fsClosed
    /\ outClosed' = TRUE
    /\ loop' = "returned"
    /\ UNCHANGED <<wctxDone, fsClosed, stopped, out, sent, panicked,
                   dvars, rvars, svars, ivars, evars, mvars>>

\* processEvents, case event := <-w.fsWatcher.Events for a notification that passes
\* the filters: the event is given to the debouncer under the key event.Name
Notify(k) ==
    /\ loop = "running"
    /\ ~fsClosed
    /\ Add(k)

\* the event built by the callback of Add n, and the moment it is sent
SentEvent(n) == [fn |-> n, afterStop |-> stopped]

\* the callback found no fn under the lock: nothing is called
CallbackNil(t) ==
    /\ tstate[t] = "run"
    /\ tfn[t] = 0
    /\ tstate' = [tstate EXCEPT ![t] = "done"]
    /\ UNCHANGED <<timers, pending, mu, tfn, addKey, armedAt, executed, rvars, svars, ivars,
                   wvars, evars, mvars>>

\* fn(), case output <- ev: the channel is open and has room
Send(t) ==
    /\ tstate[t] = "run"
    /\ tfn[t] # 0
    /\ ~outClosed
    /\ Len(out) < OutCap
    /\ out' = Append(out, tfn[t])
    /\ sent' = Append(sent, SentEvent(tfn[t]))
    /\ tstate' = [tstate EXCEPT ![t] = "done"]
    /\ UNCHANGED <<timers, pending, mu, tfn, addKey, armedAt, executed, rvars, svars, ivars,
                   wctxDone, fsClosed, stopped, loop, outClosed, panicked, evars, mvars>>

\* fn(), case <-ctx.Done(): returns without sending
SendAbort(t) ==
    /\ tstate[t] = "run"
    /\ tfn[t] # 0
    /\ wctxDone
    /\ tstate' = [tstate EXCEPT ![t] = "done"]
    /\ UNCHANGED <<timers, pending, mu, tfn, addKey, armedAt, executed, rvars, svars, ivars,
                   wvars, evars, mvars>>

\* fn(), case output <- ev chosen when the channel is closed: send on a closed
\* channel panics and the process dies
SendPanic(t) ==
    /\ tstate[t] = "run"
    /\ tfn[t] # 0
    /\ outClosed
    /\ panicked' = TRUE
    /\ tstate' = [tstate EXCEPT ![t] = "done"]
    /\ UNCHANGED <<timers, pending, mu, tfn, addKey, armedAt, executed, rvars, svars, ivars,
                   wctxDone, fsClosed, stopped, loop, outClosed, out, sent, evars, mvars>>

\* the reader of the output channel (main.go: case event, ok := <-events) takes an event
Receive ==
    /\ Len(out) > 0
    /\ out' = Tail(out)
    /\ UNCHANGED <<wctxDone, fsClosed, stopped, loop, outClosed, sent, panicked,
                   dvars, rvars, svars, ivars, evars, mvars>>

(***************************************************************************)
(* Watcher: the body of the watch loop, one raw notification after another  *)
(***************************************************************************)
\* fsnotify.Op is a bit set of these operations
FsOps == {"CREATE", "WRITE", "REMOVE", "RENAME", "CHMOD"}

\* the watch roots: /n not recursive, /n/w recursive, /n/.h not recursive; no ignore
\* patterns
RootRec == <<"/", "n", "/", "w">>

EventsWatch ==
    << WatchPath(<<"/", "n">>, FALSE, <<>>),
       WatchPath(RootRec, TRUE, <<>>),
       WatchPath(<<"/", "n", "/", ".", "h">>, FALSE, <<>>) >>

\* the directories that exist when Start is called: the roots, /n/w/a, /n/w/.g and
\* /n/w/.g/s
InitialDirs ==
    {EventsWatch[w].Path : w \in 1..Len(EventsWatch)} \cup
    {RootRec \o <<"/", "a">>, RootRec \o <<"/", ".", "g">>,
     RootRec \o <<"/", ".", "g", "/", "s">>}

\* the paths raw notifications are about: /n/w/d, /n/wx and the dotfile /n/w/.g
EventNames == {RootRec \o <<"/", "d">>, RootRec \o <<"x">>, RootRec \o <<"/", ".", "g">>}

\* the directory whose registration makes the OS report on path
Parent(path) ==
    LET seps == {i \in 1..Len(path) : path[i] = "/"}
        last == CHOOSE i \in seps : \A j \in seps : j <= i
    IN SubSeq(path, 1, last - 1)

\* no notification is being processed
NoEvent == [name |-> <<>>, ops |-> {}, isDir |-> FALSE]

\* the debouncer key of a notification is event.Name; /n/w/d and /n/wx are the names
\* that can pass the filters
EventKey(name) == IF HasPrefix(name, RootRec \o <<"/">>) THEN "k1" ELSE "k2"

\* New has returned and Start is called
InitEvents ==
    /\ ev = NoEvent
    /\ epc = "start"
    /\ watched = {}
    /\ registered = {}
    /\ wpi = 1
    /\ osCalls = [p \in InitialDirs \cup EventNames |-> 0]

\* the directories filepath.Walk(root) reaches in addRecursive and gives to addSingle:
\* an ignored directory is answered with filepath.SkipDir
WalkDirsNoPrune(root) ==
    {d \in InitialDirs :
        /\ d = root \/ HasPrefix(d, root \o <<"/">>)
        /\ ~shouldIgnore(EventsWatch, NoIgnoreFile, d, "linux")}

WalkDirs(root) ==
    {d \in InitialDirs :
        /\ d = root \/ HasPrefix(d, root \o <<"/">>)
        /\ \A e \in InitialDirs :
              ((e = root \/ HasPrefix(e, root \o <<"/">>)) /\ (e = d \/ HasPrefix(d, e \o <<"/">>)))
                  => ~shouldIgnore(EventsWatch, NoIgnoreFile, e, "linux")}

\* one iteration of the loop of Start: addPath(wp), which calls addRecursive for a
\* recursive root and addSingle otherwise; after the last one processEvents is started.
\* ok: the calls of w.fsWatcher.Add return nil; otherwise the first one fails and Start
\* returns the error
addPath(ok) ==
    /\ epc = "start"
    /\ LET wp   == EventsWatch[wpi]
           new  == (IF wp.Recursive THEN WalkDirs(wp.Path) ELSE {wp.Path}) \ watched
           head == CHOOSE p \in new : \A q \in new : Len(p) <= Len(q)
       IN IF ok \/ new = {}
          THEN /\ watched' = watched \cup new
               /\ registered' = registered \cup new
               /\ osCalls' = [p \in DOMAIN osCalls |-> osCalls[p] + IF p \in new THEN 1 ELSE 0]
               /\ wpi' = wpi + 1
               /\ epc' = IF wpi = Len(EventsWatch) THEN "recv" ELSE "start"
          ELSE /\ osCalls' = [osCalls EXCEPT ![head] = @ + 1]
               /\ epc' = "failed"
               /\ UNCHANGED <<watched, registered, wpi>>
    /\ UNCHANGED <<ev, dvars, rvars, svars, ivars, wvars, mvars>>

\* case event, ok := <-w.fsWatcher.Events: the OS reports on a path in a registered
\* directory; isDir is what os.Stat(event.Name) finds
RecvEvent(name, ops, isDir) ==
    /\ epc = "recv"
    /\ Len(addKey) < MaxAdds
    /\ Parent(name) \in registered
    /\ ev' = [name |-> name, ops |-> ops, isDir |-> isDir]
    /\ epc' = "filter"
    /\ UNCHANGED <<watched, registered, wpi, osCalls, dvars, rvars, svars, ivars, wvars, mvars>>

\* event.Op&fsnotify.Chmod == fsnotify.Chmod
ChmodFilter(ops) == "CHMOD" \in ops

\* the two filters at the head of the loop body
FilterEvent ==
    /\ epc = "filter"
    /\ epc' = IF shouldIgnore(EventsWatch, NoIgnoreFile, ev.name, "linux") THEN "ignored"
              ELSE IF ChmodFilter(ev.ops) THEN "skipped"
              ELSE "create"
    /\ UNCHANGED <<ev, watched, registered, wpi, osCalls, dvars, rvars, svars, ivars, wvars, mvars>>

\* continue: the notification is dropped and the loop waits for the next one
ContinueLoop ==
    /\ epc \in {"ignored", "skipped"}
    /\ epc' = "recv"
    /\ ev' = NoEvent
    /\ UNCHANGED <<watched, registered, wpi, osCalls, dvars, rvars, svars, ivars, wvars, mvars>>

\* the test of the directory branch: a CREATE of a directory whose path has the path
\* of a recursive watch root as a prefix
RegistersDir(e) ==
    /\ "CREATE" \in e.ops
    /\ e.isDir
    /\ \E w \in 1..Len(EventsWatch) :
          EventsWatch[w].Recursive /\ HasPrefix(e.name, EventsWatch[w].Path)

\* Watcher.addSingle(path), all of it under w.mu; ok: w.fsWatcher.Add(path) returns nil
addSingleUnchecked(path, ok) ==
    /\ osCalls' = [osCalls EXCEPT ![path] = @ + 1]
    /\ watched' = IF ok THEN watched \cup {path} ELSE watched
    /\ registered' = IF ok THEN registered \cup {path} ELSE registered

addSingle(path, ok) ==
    IF path \in watched
    THEN UNCHANGED <<watched, registered, osCalls>>
    ELSE /\ osCalls' = [osCalls EXCEPT ![path] = @ + 1]
         /\ watched' = IF ok THEN watched \cup {path} ELSE watched
         /\ registered' = IF ok THEN registered \cup {path} ELSE registered

\* the directory branch of the loop body
HandleCreate(ok) ==
    /\ epc = "create"
    /\ IF RegistersDir(ev)
       THEN addSingle(ev.name, ok)
       ELSE UNCHANGED <<watched, registered, osCalls>>
    /\ epc' = "debounce"
    /\ UNCHANGED <<ev, wpi, dvars, rvars, svars, ivars, wvars, mvars>>

\* w.debouncer.Add(event.Name, func() {...}), then the next iteration of the loop
Debounce ==
    /\ epc = "debounce"
    /\ AddCall(EventKey(ev.name))
    /\ epc' = "recv"
    /\ ev' = NoEvent
    /\ UNCHANGED <<watched, registered, wpi, osCalls, rvars, svars, ivars, wvars, mvars>>

(***************************************************************************)
(* runWatch: the loop that receives the change events and calls Run        *)
(***************************************************************************)
\* bound: the number of change events the watcher delivers
MaxEvents == 2

\* runWatch has started the watcher and enters its loop: no Run has been called. The
\* run tag of the commands, which Run never reads, is left at one value
InitMain ==
    /\ rcfg \in {c \in Configs : \A i \in 1..Len(c.Commands) : c.Commands[i].Run = "parallel"}
    /\ ctxDone = FALSE
    /\ rpc = "returned"
    /\ seqIdx = 1
    /\ wpc = [i \in 1..Len(rcfg.Commands) |-> "idle"]
    /\ proc = [i \in 1..Len(rcfg.Commands) |-> "none"]
    /\ pipeHeld = [i \in 1..Len(rcfg.Commands) |-> FALSE]
    /\ cmdCtxErr = [i \in 1..Len(rcfg.Commands) |-> "none"]
    /\ sem = 0
    /\ results = <<>>
    /\ summary = "none"
    /\ waitedAtCancel = {}
    /\ clog = [i \in 1..Len(rcfg.Commands) |-> <<>>]
    /\ mq = 0
    /\ eventCount = 0
    /\ runCalls = 0
    /\ mainExit = FALSE

\* a callback of the watcher puts a change event on the channel
Produce ==
    /\ mq + eventCount < MaxEvents
    /\ mq' = mq + 1
    /\ UNCHANGED <<eventCount, runCalls, mainExit, dvars, rvars, svars, ivars, wvars, evars>>

\* the signal goroutine of runWatch calls cancel()
Signal ==
    /\ ~mainExit
    /\ ~ctxDone
    /\ ctxDone' = TRUE
    /\ waitedAtCancel' = WaitingForSlot
    /\ UNCHANGED <<rcfg, clog, rpc, seqIdx, wpc, proc, pipeHeld, cmdCtxErr, sem, results,
                   summary, dvars, svars, ivars, wvars, evars, mvars>>

\* the loop is at its select: r.Run is a plain call, so the loop is there only when
\* no Run is in progress
AtSelectAnyTime == ~mainExit

AtSelect == ~mainExit /\ rpc = "returned"

\* case event, ok := <-events with ok true: eventCount++ and the call r.Run(ctx,
\* event.Path, event.Op), whose steps are those of the Runner
MainReceive ==
    /\ AtSelect
    /\ mq > 0
    /\ mq' = mq - 1
    /\ eventCount' = eventCount + 1
    /\ runCalls' = runCalls + 1
    /\ rpc' = "start"
    /\ seqIdx' = 1
    /\ wpc' = [i \in 1..Len(rcfg.Commands) |-> "idle"]
    /\ proc' = [i \in 1..Len(rcfg.Commands) |-> "none"]
    /\ pipeHeld' = [i \in 1..Len(rcfg.Commands) |-> FALSE]
    /\ cmdCtxErr' = [i \in 1..Len(rcfg.Commands) |-> "none"]
    /\ sem' = 0
    /\ results' = <<>>
    /\ summary' = "none"
    /\ clog' = [i \in 1..Len(rcfg.Commands) |-> <<>>]
    /\ UNCHANGED <<rcfg, ctxDone, waitedAtCancel, mainExit, dvars, svars, ivars, wvars, evars>>

\* case <-ctx.Done(): runWatch returns. The watch loop closes the channel only when it
\* returns on the cancelled context, so the return on a closed channel (!ok) is taken
\* only when this case is ready as well
MainExit ==
    /\ AtSelect
    /\ ctxDone
    /\ mainExit' = TRUE
    /\ UNCHANGED <<mq, eventCount, runCalls, dvars, rvars, svars, ivars, wvars, evars>>

(***************************************************************************)
(* Specifications                                                          *)
(***************************************************************************)
\* no watch loop is processing notifications
IdleEvents ==
    /\ ev = NoEvent
    /\ epc = "off"
    /\ watched = {}
    /\ registered = {}
    /\ wpi = 1
    /\ osCalls = <<>>

\* no Watcher has been started
IdleWatcher ==
    /\ wctxDone = FALSE
    /\ fsClosed = FALSE
    /\ stopped = FALSE
    /\ loop = "idle"
    /\ outClosed = FALSE
    /\ out = <<>>
    /\ sent = <<>>
    /\ panicked = FALSE

IdleRunner ==
    /\ rcfg = [sequential |-> FALSE, dryRun |-> FALSE, MaxConcurrency |-> 1,
               Commands |-> <<>>]
    /\ ctxDone = FALSE
    /\ rpc = "returned"
    /\ seqIdx = 1
    /\ wpc = <<>>
    /\ proc = <<>>
    /\ pipeHeld = <<>>
    /\ cmdCtxErr = <<>>
    /\ sem = 0
    /\ results = <<>>
    /\ summary = "none"
    /\ waitedAtCancel = {}
    /\ clog = <<>>

IdleSubst ==
    /\ subIn = [cmd |-> <<>>, path |-> <<>>, event |-> <<>>]
    /\ subDone = TRUE
    /\ subOut = <<>>

IdleIgnore ==
    /\ ignIn = [goos |-> "linux", watch |-> <<>>,
                file |-> [exists |-> FALSE, patterns |-> <<>>], path |-> <<>>]
    /\ ignDone = TRUE
    /\ ignOut = FALSE

\* no loop of runWatch is running
IdleMain ==
    /\ mq = 0
    /\ eventCount = 0
    /\ runCalls = 0
    /\ mainExit = TRUE

InitD == InitDebouncer /\ IdleRunner /\ IdleSubst /\ IdleIgnore /\ IdleWatcher
    /\ IdleEvents /\ IdleMain

NextD ==
    \/ \E k \in Keys : Add(k)
    \/ \E t \in Timers : Expire(t)
    \/ \E t \in Timers : Release(t)
    \/ \E t \in Timers : Invoke(t)

\* a timer whose delay has elapsed fires, and the goroutine of its callback is scheduled
TimerSteps == \E t \in Timers : Expire(t) \/ Release(t) \/ Invoke(t)

SpecDebouncer == InitD /\ [][NextD]_vars /\ WF_vars(TimerSteps)

InitR == InitRunner /\ InitDebouncer /\ IdleSubst /\ IdleIgnore /\ IdleWatcher
    /\ IdleEvents /\ IdleMain

InitS == InitSubst /\ InitDebouncer /\ IdleRunner /\ IdleIgnore /\ IdleWatcher
    /\ IdleEvents /\ IdleMain

NextS == Substitute

SpecSubst == InitS /\ [][NextS]_vars

InitI == InitIgnore /\ InitDebouncer /\ IdleRunner /\ IdleSubst /\ IdleWatcher
    /\ IdleEvents /\ IdleMain

NextI == CheckIgnore

SpecIgnore == InitI /\ [][NextI]_vars

NextR ==
    \/ Cancel
    \/ RunStart
    \/ \E i \in Cmds : Acquire(i)
    \/ \E i \in Cmds : Abandon(i)
    \/ \E i \in Cmds : ExecDryRun(i)
    \/ \E i \in Cmds : ExecEmpty(i)
    \/ \E i \in Cmds, err \in SetupErrors : ExecSetupFails(i, err)
    \/ \E i \in Cmds, forks \in BOOLEAN : ExecStart(i, forks)
    \/ \E i \in Cmds, code \in {0, 1} : ProcExit(i, code)
    \/ \E i \in Cmds : Deadline(i)
    \/ \E i \in Cmds : CancelCommand(i)
    \/ \E i \in Cmds : DescendantExit(i)
    \/ \E i \in Cmds : ExecReturn(i)
    \/ \E i \in Cmds : ReleaseSlot(i)
    \/ ParallelJoin
    \/ RunSummary

SpecRunner == InitR /\ [][NextR]_vars

\* the goroutines of Run are scheduled: Run, its workers and the executeCommand calls
\* take their next step when they have one
RunnerSteps ==
    \/ RunStart
    \/ ParallelJoin
    \/ RunSummary
    \/ \E i \in Cmds :
          \/ Acquire(i) \/ Abandon(i) \/ ExecDryRun(i) \/ ExecEmpty(i) \/ ExecReturn(i)
          \/ ReleaseSlot(i) \/ CancelCommand(i)
          \/ \E err \in SetupErrors : ExecSetupFails(i, err)
          \/ \E forks \in BOOLEAN : ExecStart(i, forks)

\* a started process ends: it exits by itself or its timeout expires. A descendant
\* that holds the output pipes is not bound to exit.
ProcessSteps == \E i \in Cmds : Deadline(i) \/ \E code \in {0, 1} : ProcExit(i, code)

SpecRunnerFair ==
    InitR /\ [][NextR]_vars /\ WF_vars(RunnerSteps) /\ WF_vars(ProcessSteps)

InitW == InitWatcher /\ InitDebouncer /\ IdleRunner /\ IdleSubst /\ IdleIgnore
    /\ IdleEvents /\ IdleMain

\* a panic ends the process: nothing happens after it
Alive == ~panicked

NextW ==
    \/ Alive /\ WCancel
    \/ Alive /\ Stop
    \/ Alive /\ LoopCancelled
    \/ Alive /\ LoopChannelClosed
    \/ Alive /\ \E k \in Keys : Notify(k)
    \/ Alive /\ \E t \in Timers : Expire(t)
    \/ Alive /\ \E t \in Timers : Release(t)
    \/ Alive /\ \E t \in Timers : CallbackNil(t)
    \/ Alive /\ \E t \in Timers : Send(t)
    \/ Alive /\ \E t \in Timers : SendAbort(t)
    \/ Alive /\ \E t \in Timers : SendPanic(t)
    \/ Alive /\ Receive

\* the watch loop takes a case of its select that is ready
LoopSteps == Alive /\ (LoopCancelled \/ LoopChannelClosed)

\* timers fire, callbacks are scheduled and a callback whose select has a ready case
\* takes one
CallbackSteps ==
    /\ Alive
    /\ \E t \in Timers :
          Expire(t) \/ Release(t) \/ CallbackNil(t) \/ Send(t) \/ SendAbort(t) \/ SendPanic(t)

SpecWatcher == InitW /\ [][NextW]_vars /\ WF_vars(LoopSteps) /\ WF_vars(CallbackSteps)

\* bound: the notifications the watch loop handles before it is shut down
MaxLoopAdds == 2

\* the shutdown of the watch loop: the steps of SpecWatcher, with few notifications
NextShutdown ==
    \/ Alive /\ WCancel
    \/ Alive /\ Stop
    \/ Alive /\ LoopCancelled
    \/ Alive /\ LoopChannelClosed
    \/ Alive /\ \E k \in Keys : Len(addKey) < MaxLoopAdds /\ Notify(k)
    \/ Alive /\ \E t \in Timers : Expire(t)
    \/ Alive /\ \E t \in Timers : Release(t)
    \/ Alive /\ \E t \in Timers : CallbackNil(t)
    \/ Alive /\ \E t \in Timers : Send(t)
    \/ Alive /\ \E t \in Timers : SendAbort(t)
    \/ Alive /\ \E t \in Timers : SendPanic(t)
    \/ Alive /\ Receive

SpecShutdown ==
    InitW /\ [][NextShutdown]_vars /\ WF_vars(LoopSteps) /\ WF_vars(CallbackSteps)

InitE ==
    /\ InitEvents /\ InitDebouncer /\ IdleRunner /\ IdleSubst /\ IdleIgnore /\ IdleWatcher
    /\ IdleMain

NextE ==
    \/ \E ok \in BOOLEAN : addPath(ok)
    \/ \E name \in EventNames, ops \in (SUBSET FsOps) \ {{}}, isDir \in BOOLEAN :
          RecvEvent(name, ops, isDir)
    \/ FilterEvent
    \/ ContinueLoop
    \/ \E ok \in BOOLEAN : HandleCreate(ok)
    \/ Debounce

SpecEvents == InitE /\ [][NextE]_vars

\* the loop of runWatch and the steps of the Run it has called; of the failures before
\* the process runs, which runWatch does not tell apart, the one of command.Start is
\* taken
InitM == InitMain /\ InitDebouncer /\ IdleSubst /\ IdleIgnore /\ IdleWatcher /\ IdleEvents

NextM ==
    \/ Produce
    \/ Signal
    \/ MainReceive
    \/ MainExit
    \/ RunStart
    \/ \E i \in Cmds : Acquire(i)
    \/ \E i \in Cmds : Abandon(i)
    \/ \E i \in Cmds : ExecDryRun(i)
    \/ \E i \in Cmds : ExecEmpty(i)
    \/ \E i \in Cmds : ExecSetupFails(i, "failed to start command")
    \/ \E i \in Cmds, forks \in BOOLEAN : ExecStart(i, forks)
    \/ \E i \in Cmds, code \in {0, 1} : ProcExit(i, code)
    \/ \E i \in Cmds : Deadline(i)
    \/ \E i \in Cmds : CancelCommand(i)
    \/ \E i \in Cmds : DescendantExit(i)
    \/ \E i \in Cmds : ExecReturn(i)
    \/ \E i \in Cmds : ReleaseSlot(i)
    \/ ParallelJoin
    \/ RunSummary

SpecMain == InitM /\ [][NextM]_vars

(***************************************************************************)
(* Debouncer: claims                                                       *)
(***************************************************************************)
\* the number of times action a has been invoked
Count(a) == Cardinality({i \in 1..Len(executed) : executed[i] = a})

\* the Add calls on the key of Add n that came after it / before it
SameKeyAfter(n) == {m \in Timers : m > n /\ addKey[m] = addKey[n]}

SameKeyBefore(n) == {m \in Timers : m < n /\ addKey[m] = addKey[n]}

\* Add n came before the timer of the previous Add on its key had expired
Continues(n) ==
    /\ SameKeyBefore(n) # {}
    /\ (CHOOSE m \in SameKeyBefore(n) : \A j \in SameKeyBefore(n) : j <= m) \in armedAt[n]

\* Add n is the last Add of its burst
LastOfBurst(n) ==
    \/ SameKeyAfter(n) = {}
    \/ ~Continues(CHOOSE m \in SameKeyAfter(n) : \A j \in SameKeyAfter(n) : m <= j)

\* no timer is pending and no callback is under way
Settled == \A t \in Timers : tstate[t] \in {"stopped", "done"}

\* C1: in every burst of Add calls on one key (each Add after the first made before
\* the timer of the previous Add has expired) the last action is executed, exactly
\* once, and no earlier action of the burst is ever executed.
C1_Coalescing ==
    /\ \A n \in Timers : Count(n) <= 1
    /\ \A n \in Timers : ~LastOfBurst(n) => Count(n) = 0
    /\ Settled => \A n \in Timers : LastOfBurst(n) => Count(n) = 1

\* Add n is the only Add made for its key
OnlyAdd(n) == SameKeyAfter(n) = {} /\ SameKeyBefore(n) = {}

\* an Add for key k leaves the timer and the pending action of every other key alone
AddFrame ==
    \A k \in Keys :
        (Len(addKey') = Len(addKey) + 1 /\ addKey'[Len(addKey')] = k) =>
            \A j \in Keys \ {k} :
                /\ timers'[j] = timers[j]
                /\ pending'[j] = pending[j]
                /\ \A t \in Timers : addKey[t] = j => tstate'[t] = tstate[t]

\* C2: an Add for one key does not cancel, reschedule or replace what is pending for
\* another key; two keys triggered once each have their two actions executed, each
\* exactly once, when their timers have run, and the timers do run.
C2_Independence ==
    /\ [][AddFrame]_vars
    /\ [](\A a, b \in Timers :
            (addKey[a] # addKey[b] /\ OnlyAdd(a) /\ OnlyAdd(b)) =>
                /\ Count(a) <= 1 /\ Count(b) <= 1
                /\ Settled => (Count(a) = 1 /\ Count(b) = 1))
    /\ <>[]Settled

\* two keys were triggered in the same window and both actions have been executed
C2_Witness ==
    \E a, b \in Timers :
        /\ addKey[a] # addKey[b] /\ OnlyAdd(a) /\ OnlyAdd(b)
        /\ a \in armedAt[b]
        /\ Count(a) = 1 /\ Count(b) = 1
        /\ Settled

\* the timers created for key k that have neither been stopped nor finished their
\* callback
LiveTimers(k) == {t \in Timers : addKey[t] = k /\ tstate[t] \notin {"stopped", "done"}}

\* C16: in every reachable state at most one timer per key is scheduled: created,
\* not stopped, and its callback not finished.
C16_OneTimerPerKey == \A k \in Keys : Cardinality(LiveTimers(k)) <= 1

\* the most recent Add made for key k
LatestAdd(k) == CHOOSE n \in Timers : addKey[n] = k /\ \A m \in Timers : addKey[m] = k => m <= n

\* the callback of timer t takes, under the lock, nothing or the action of the most
\* recent Add of its key
TakesLatest ==
    \A t \in Timers :
        (tstate[t] = "fired" /\ tstate'[t] = "run") => tfn'[t] \in {0, LatestAdd(addKey[t])}

\* the actions that callbacks have taken out of the table
Released == {tfn[t] : t \in {u \in Timers : tstate[u] \in {"run", "done"}}} \ {0}

\* Add n and the later Add m belong to one burst of their key
SameBurst(n, m) ==
    /\ n < m /\ addKey[n] = addKey[m]
    /\ \A j \in Timers : (n < j /\ j <= m /\ addKey[j] = addKey[n]) => Continues(j)

\* C17: a callback that releases an action takes the one of the most recent Add of
\* its key; no action is released that a later Add had superseded within its burst,
\* and at most one action is released per burst (quiet period).
C17_NoStaleRelease ==
    /\ [][TakesLatest]_vars
    /\ [](\A n, m \in Released : ~SameBurst(n, m))

\* C18: an action is only ever released by the timer that its own Add call
\* scheduled, never by a timer scheduled by an earlier Add.
C18_QuietPeriod ==
    \A t \in Timers : tstate[t] \in {"run", "done"} => tfn[t] \in {0, t}

\* C19: under fair scheduling of the timers every callback finishes; the action of
\* the last Add of a key is executed, exactly once, by the time the timers have run,
\* whatever Adds and expirations came before; no action is executed twice; a pending
\* action always has a timer of its key that is armed or about to run its callback.
C19_Liveness ==
    /\ <>[]Settled
    /\ [](\A n \in Timers : Count(n) <= 1)
    /\ [](Settled => \A n \in Timers : SameKeyAfter(n) = {} => Count(n) = 1)
    /\ [](\A k \in Keys :
            pending[k] # 0 => \E t \in LiveTimers(k) : tstate[t] \in {"armed", "fired"})

\* the last Add of a key came after the timer of the previous Add had expired; its
\* action was released by that earlier timer and has been executed once
C19_Witness ==
    \E n \in Timers :
        /\ SameKeyBefore(n) # {} /\ SameKeyAfter(n) = {} /\ ~Continues(n)
        /\ \E t \in Timers : t < n /\ tfn[t] = n
        /\ Count(n) = 1
        /\ Settled

\* C40: whenever the lock of the Debouncer is free, the timer table and the pending
\* table have the same keys; once every timer has been stopped or has run its
\* callback, both tables are empty.
C40_TableConsistency ==
    /\ LockFree => \A k \in Keys : (timers[k] # NoTimer) <=> (pending[k] # 0)
    /\ Settled => \A k \in Keys : timers[k] = NoTimer /\ pending[k] = 0

\* all Adds have been made, for both keys, one of them replaced the entries of a key
\* whose timer had already expired, and every callback has run
C40_Witness ==
    /\ Settled
    /\ Len(addKey) = MaxAdds
    /\ \A k \in Keys : \E n \in Timers : addKey[n] = k
    /\ \E n \in Timers : SameKeyBefore(n) # {} /\ ~Continues(n)
    /\ \A k \in Keys : timers[k] = NoTimer /\ pending[k] = 0

(***************************************************************************)
(* Runner: claims                                                          *)
(***************************************************************************)
\* the tokens of command i after substitution
Resolved(i) == replacePlaceholders(rcfg.Commands[i].Cmd, RunPath, RunEvent)

\* the commands whose process is running or whose output is still being read
Inside == {i \in Cmds : wpc[i] = "streaming"}

\* executeCommand has been called for command i
Attempted(i) == wpc[i] \in {"streaming", "finished", "done"}

\* executeCommand has returned for command i
Executed(i) == wpc[i] \in {"finished", "done"}

\* C3: in sequential mode the commands up to and including the first one with a
\* nonzero exit code are executed, in order, and no later one is attempted; the result
\* list holds their results, the failing one last; without a failure it holds all n.
C3_ShortCircuit ==
    (rcfg.sequential /\ rpc # "start") =>
        /\ Len(results) <= NCmds
        /\ \A i \in Cmds : Executed(i) <=> i <= Len(results)
        /\ \A i \in 1..Len(results) :
              /\ results[i].Command = Resolved(i)
              /\ i < Len(results) => results[i].ExitCode = 0
        /\ \A i \in Cmds : Attempted(i) => \A j \in 1..(i - 1) : results[j].ExitCode = 0
        /\ rpc \in {"summary", "returned"} =>
              \/ Len(results) = NCmds
              \/ Len(results) >= 1 /\ results[Len(results)].ExitCode # 0

\* a sequential Run has returned after its first command failed with the sentinel
\* code, and the second command was never attempted
C3_Witness ==
    /\ rcfg.sequential /\ rpc = "returned" /\ NCmds >= 2
    /\ Len(results) = 1 /\ results[1].ExitCode = -1
    /\ wpc[2] = "idle" /\ proc[2] = "none"

\* C4: in a parallel Run at most MaxConcurrency commands are running at any time, and
\* the workers inside executeCommand (called, running, or returned and not yet past the
\* deferred release) are exactly the holders of the taken semaphore slots.
C4_ConcurrencyBound ==
    (~rcfg.sequential) =>
        /\ Cardinality(Inside) <= rcfg.MaxConcurrency
        /\ sem = Cardinality({i \in Cmds : wpc[i] \in {"call", "streaming", "finished"}})
        /\ sem <= rcfg.MaxConcurrency

\* as many commands are running as the ceiling allows while another one waits for a slot
C4_Witness ==
    /\ ~rcfg.sequential
    /\ Cardinality(Inside) = rcfg.MaxConcurrency
    /\ \E i \in Cmds : wpc[i] = "select"

\* C5: a parallel Run has one result slot per command; the slot of an executed command
\* holds that command's own result and the slot of a command not (yet) executed is
\* unwritten, whatever the order in which the workers finish.
C5_IndexAddressed ==
    (~rcfg.sequential /\ rpc \in {"par", "summary", "returned"}) =>
        /\ Len(results) = NCmds
        /\ \A i \in Cmds :
              IF Executed(i)
              THEN results[i].Command = Resolved(i)
              ELSE results[i] = ZeroResult

\* a parallel Run has returned with both results in place although the commands
\* finished with different outcomes
C5_Witness ==
    /\ ~rcfg.sequential /\ rpc = "returned" /\ NCmds >= 2
    /\ \A i \in Cmds : Executed(i) /\ results[i].Command = Resolved(i)
    /\ results[1].ExitCode = 1 /\ results[2].ExitCode = 0
    /\ Resolved(1) # Resolved(2)

\* C7: in dry-run mode no process is ever started and every result has exit code 0
\* and no error.
C7_DryRun ==
    rcfg.dryRun =>
        /\ \A i \in Cmds : proc[i] = "none"
        /\ \A i \in 1..Len(results) : results[i].ExitCode = 0 /\ results[i].Error = "nil"

\* a dry run of two commands has returned
C7_Witness ==
    /\ rcfg.dryRun /\ rpc = "returned" /\ NCmds >= 2
    /\ \A i \in Cmds : Executed(i)

\* C8: once the timeout of a started command has expired and its process has been
\* killed, executeCommand returns without waiting for anything else, and the result
\* it returns has a nonzero exit code and an error.
C8_Timeout ==
    \A i \in Cmds :
        (cmdCtxErr[i] = "deadline" /\ proc[i] = "killed") =>
            /\ wpc[i] = "streaming" => ReturnReady(i)
            /\ Executed(i) =>
                  \E j \in 1..Len(results) :
                      /\ results[j].Command = Resolved(i)
                      /\ results[j].ExitCode # 0 /\ results[j].Error # "nil"

\* C10: when every configured command declares run: sequential, no two commands are
\* running at the same time.
C10_PerCommandSequential ==
    (\A i \in Cmds : rcfg.Commands[i].Run = "sequential") => Cardinality(Inside) <= 1

\* what executeCommand does with an empty token list: no process, and when it has
\* returned, the sentinel exit code and the "empty command" error
EmptyCommandFails(i) ==
    /\ proc[i] = "none"
    /\ wpc[i] # "streaming"
    /\ Executed(i) => (results[i].ExitCode = -1 /\ results[i].Error = "empty command")

\* C15: outside dry-run mode, whenever the token list is empty after substitution,
\* executeCommand spawns no process and returns the sentinel exit code -1 with the
\* "empty command" error.
C15_EmptyCommand ==
    \A i \in Cmds : (Len(Resolved(i)) = 0 /\ ~rcfg.dryRun) => EmptyCommandFails(i)

\* an empty command has been executed outside dry-run mode
C15_Witness ==
    /\ ~rcfg.dryRun /\ NCmds >= 1 /\ Len(Resolved(1)) = 0
    /\ Executed(1) /\ results[1].ExitCode = -1 /\ results[1].Error = "empty command"

\* C15 as stated, in every mode: an empty token list always gives the sentinel exit
\* code and the "empty command" error.
C15_EmptyCommandAnyMode ==
    \A i \in Cmds : Len(Resolved(i)) = 0 => EmptyCommandFails(i)

C23_ParallelJoin ==
    (~rcfg.sequential /\ rpc \in {"summary", "returned"}) =>
        /\ \A i \in Cmds : wpc[i] \in {"done", "abandoned"} /\ proc[i] # "running"
        /\ \A i \in Cmds : wpc[i] = "abandoned" => proc[i] = "none"
        /\ sem = 0

\* a cancelled parallel Run has returned: one command was killed, one was abandoned
C23_Witness ==
    /\ ~rcfg.sequential
    /\ rpc = "returned"
    /\ \E i, j \in Cmds : wpc[i] = "done" /\ proc[i] = "killed" /\ wpc[j] = "abandoned"

\* C24: in parallel mode, as long as the context given to Run is not cancelled, a
\* failed command does not cancel the shared context: no worker abandons, no running
\* command is cancelled, and when Run has returned every configured command has been
\* executed and has its own result in its slot.
C24_FailureIsolation ==
    (~rcfg.sequential /\ ~ctxDone) =>
        /\ ~gctxDone
        /\ \A i \in Cmds : wpc[i] # "abandoned" /\ cmdCtxErr[i] # "canceled"
        /\ rpc = "returned" =>
              \A i \in Cmds : wpc[i] = "done" /\ results[i].Command = Resolved(i)

\* one slot, no cancellation: command 1 has failed and command 2, which had to wait
\* for the slot, is running
C24_Witness ==
    /\ ~rcfg.sequential /\ ~ctxDone /\ rcfg.MaxConcurrency = 1 /\ NCmds = 2
    /\ wpc[1] = "done" /\ results[1].ExitCode # 0 /\ results[1].Error # "nil"
    /\ wpc[2] = "streaming" /\ proc[2] = "running"

\* C25: a parallel Run whose context is never cancelled and whose started processes
\* all end (by exit or by timeout) eventually returns with every command executed.
C25_ParallelProgress ==
    <>(\/ rcfg.sequential
       \/ ctxDone
       \/ rpc = "returned" /\ \A i \in Cmds : wpc[i] = "done")

\* C26: in sequential mode a command is started only after all commands before it in
\* the list have completed, at most one command is inside executeCommand at a time,
\* and the result list holds the results of the commands that ran, in list order.
C26_SequentialOrder ==
    rcfg.sequential =>
        /\ \A i \in Cmds : wpc[i] # "idle" => \A j \in 1..(i - 1) : wpc[j] = "done"
        /\ Cardinality({i \in Cmds : wpc[i] = "streaming" \/ proc[i] = "running"}) <= 1
        /\ Len(results) = Cardinality({i \in Cmds : wpc[i] = "done"})
        /\ \A k \in 1..Len(results) : wpc[k] = "done" /\ results[k].Command = Resolved(k)

\* the second command of a sequential Run is running after the first has completed
C26_Witness ==
    /\ rcfg.sequential /\ NCmds = 2
    /\ wpc[1] = "done" /\ Len(results) = 1
    /\ wpc[2] = "streaming" /\ proc[2] = "running"

\* C27: the process of a running command is killed as soon as its cmdCtx is done, by
\* the timeout or by the cancellation of the context of Run, whichever comes first;
\* after the cancellation the kill of a running process does not wait for the timeout;
\* the result of a killed command has a nonzero exit code and a non-nil error.
C27_CancelVersusTimeout ==
    \A i \in Cmds :
        /\ cmdCtxErr[i] # "none" => proc[i] # "running"
        /\ proc[i] = "killed" => cmdCtxErr[i] # "none"
        /\ cmdCtxErr[i] = "canceled" => ctxDone
        /\ (RunCtxDone /\ proc[i] = "running") => ENABLED CancelCommand(i)
        /\ (proc[i] = "killed" /\ wpc[i] = "done") =>
              results[i].ExitCode # 0 /\ results[i].Error # "nil"

\* a command was killed by the cancellation, its timeout not expired, and has returned
C27_Witness ==
    \E i \in Cmds :
        /\ proc[i] = "killed" /\ cmdCtxErr[i] = "canceled"
        /\ wpc[i] = "done" /\ results[i].ExitCode = -1

\* C28: at the end of Run the success count is the number of configured commands that
\* were executed (or dry-run) and finished with exit code 0, and the success summary
\* is logged only when every command of the batch was executed and exited 0.
C28_BatchSummary ==
    rpc \in {"summary", "returned"} =>
        /\ successCount =
              Cardinality({i \in Cmds : wpc[i] = "done" /\ results[i].ExitCode = 0})
        /\ summary = "success" =>
              \A i \in Cmds : wpc[i] = "done" /\ results[i].ExitCode = 0

\* the number of lines of the given kinds in a log
RECURSIVE CountLines(_, _)
CountLines(log, kinds) ==
    IF log = <<>> THEN 0
    ELSE (IF Head(log) \in kinds THEN 1 ELSE 0) + CountLines(Tail(log), kinds)

\* C36: a call of executeCommand that is not a dry run writes the "starting" line
\* first, and when it has returned the "starting" line is followed by exactly one
\* completion line (the "completed"/"failed" line of CommandEnd or the "Failed to ..."
\* line of a pipe or spawn failure), on every path.
C36_LogPairing ==
    \A i \in Cmds :
        /\ clog[i] # <<>> => Head(clog[i]) = "start"
        /\ (wpc[i] \in {"done", "finished"} /\ ~rcfg.dryRun) =>
              /\ CountLines(clog[i], {"start"}) = 1
              /\ CountLines(clog[i], {"end", "error"}) = 1

(***************************************************************************)
(* replacePlaceholders: claims                                             *)
(***************************************************************************)
\* token s with every {path} and every {event} of s itself replaced, the inserted
\* text being left as it is
RECURSIVE Verbatim(_, _, _)
Verbatim(s, path, event) ==
    IF Len(s) = 0 THEN s
    ELSE IF HasPrefix(s, PathPH)
         THEN path \o Verbatim(SubSeq(s, Len(PathPH) + 1, Len(s)), path, event)
    ELSE IF HasPrefix(s, EventPH)
         THEN event \o Verbatim(SubSeq(s, Len(EventPH) + 1, Len(s)), path, event)
    ELSE <<s[1]>> \o Verbatim(Tail(s), path, event)

\* C6: replacePlaceholders returns a list of the same length whose i-th token is the
\* i-th input token with its {path} and {event} replaced verbatim: the inserted path
\* is not rewritten.
C6_Substitution ==
    subDone =>
        /\ Len(subOut) = Len(subIn.cmd)
        /\ \A i \in 1..Len(subOut) :
              subOut[i] = Verbatim(subIn.cmd[i], subIn.path, subIn.event)

(***************************************************************************)
(* shouldIgnore: claims                                                    *)
(***************************************************************************)
\* C9: with the root /tmp and the patterns "*.tmp", "vendor/**", ".git/**",
\* shouldIgnore is true of every path whose base name ends in .tmp, of every path
\* under /tmp/vendor/ or /tmp/.git/ and of every dotfile, and false of /tmp/test.go
\* and /tmp/normal/file.go.
C9_IgnoreRules ==
    (ignDone /\ ignIn.watch = TestWatch) =>
        LET path == ignIn.path
            base == Base(path, ignIn.goos)
        IN /\ HasSuffix(base, ExtTmp) => ignOut
           /\ HasPrefix(path, Sl \o SegTmp \o Sl \o SegVendor \o Sl) => ignOut
           /\ HasPrefix(path, Sl \o SegTmp \o Sl \o SegGit \o Sl) => ignOut
           /\ (HasPrefix(base, <<".">>) /\ base # <<".">>) => ignOut
           /\ path \in { Sl \o SegTmp \o <<"/", "t", "e", "s", "t">> \o ExtGo,
                         Sl \o SegTmp \o <<"/", "n", "o", "r", "m", "a", "l", "/",
                                           "f", "i", "l", "e">> \o ExtGo }
                  => ~ignOut

\* C11: with the documented pattern "**/*.tmp" configured, shouldIgnore is true of
\* every path under the watch root whose base name ends in .tmp, at any depth.
C11_DocTmpPattern ==
    (ignDone /\ ignIn.watch = DocTmpWatch) =>
        (HasSuffix(Base(ignIn.path, ignIn.goos), ExtTmp) => ignOut)

\* C12: with the documented pattern "**/node_modules/**" configured, shouldIgnore is
\* true of every path that has a node_modules directory segment, at any depth.
C12_DocNodeModulesPattern ==
    (ignDone /\ ignIn.watch = DocNodeModulesWatch) =>
        (Contains(ignIn.path, Sl \o SegNodeModules \o Sl) => ignOut)

\* C13: a path whose base name matches a pattern listed in the .gowatchignore file is
\* ignored by shouldIgnore, even when no pattern of the configuration matches it.
C13_IgnoreFileSource ==
    (ignDone /\ ignIn.file.exists) =>
        ((\E p \in 1..Len(ignIn.file.patterns) :
              Match(ignIn.file.patterns[p], Base(ignIn.path, ignIn.goos), ignIn.goos))
            => ignOut)

(***************************************************************************)
(* Watcher: claims                                                         *)
(***************************************************************************)
\* C14: no change event is sent on the output channel after Stop() has returned,
\* including events whose debounce timer was pending when Stop was called.
C14_NoEventAfterStop == \A i \in 1..Len(sent) : ~sent[i].afterStop

\* C22: once the context has been cancelled no change event is placed on the output
\* channel: a callback that runs with the cancellation active does not send.
C22_NoDeliveryAfterCancel == [][wctxDone => sent' = sent]_vars

\* C35: once the context is cancelled the watch loop eventually has returned, with the
\* fsnotify watcher closed and the output channel closed; the output channel is closed
\* once, by the step in which the loop returns; a loop that has returned stays
\* returned, and no notification is given to the debouncer after that.
C35_LoopShutdown ==
    /\ wctxDone ~> (loop = "returned" /\ fsClosed /\ outClosed)
    /\ [][/\ outClosed' # outClosed => (~outClosed /\ loop = "running" /\ loop' = "returned")
          /\ loop = "returned" => (loop' = "returned" /\ outClosed' /\ addKey' = addKey)]_vars

\* the loop has returned through its cancellation case, with Stop never called, after
\* it had given a notification to the debouncer whose timer is still armed
C35_Witness ==
    /\ wctxDone /\ ~stopped
    /\ loop = "returned" /\ fsClosed /\ outClosed
    /\ \E t \in Timers : tstate[t] = "armed"

\* C38: no callback ever attempts to send on the output channel after the watch loop
\* has closed it: the process never panics on a send on a closed channel.
C38_NoSendOnClosed == ~panicked

\* a released action is executing: its callback has left the locked part and has not
\* returned from fn
Executing(t) == tstate[t] = "run" /\ tfn[t] # 0

\* the callback of timer t is blocked in fn: the output channel is open and full and
\* the context is not cancelled
BlockedOnOutput(t) ==
    Executing(t) /\ ~outClosed /\ Len(out) = OutCap /\ ~wctxDone

\* C20: while a released action is executing, also when it is blocked on the full
\* output channel, the lock of the Debouncer is free and an Add for any key can take
\* it and complete.
C20_AddNeverBlocks ==
    \A t \in Timers :
        Executing(t) =>
            /\ LockFree
            /\ Len(addKey) < MaxAdds => \A k \in Keys : ENABLED Add(k)

\* an Add for the same key has completed while the released action of an earlier
\* timer is still blocked on the full output channel
C20_Witness ==
    \E t \in Timers :
        /\ BlockedOnOutput(t)
        /\ pending[addKey[t]] > t

(***************************************************************************)
(* Watch loop body: claims                                                 *)
(***************************************************************************)
\* the operations that change content
ContentOps == FsOps \ {"CHMOD"}

\* C29: the CHMOD filter drops exactly the pure permission changes: a notification
\* whose operation set is {CHMOD} never goes on towards the debouncer, and a
\* notification that carries a content operation is not dropped by the filter.
C29_ChmodFilter ==
    /\ epc \in {"create", "debounce"} => ev.ops # {"CHMOD"}
    /\ epc = "skipped" => ev.ops \cap ContentOps = {}

\* a CREATE notification for a directory inside the recursive root that no ignore
\* rule matches
CreatedDir(e) ==
    /\ "CREATE" \in e.ops
    /\ e.isDir
    /\ HasPrefix(e.name, RootRec \o <<"/">>)
    /\ ~shouldIgnore(EventsWatch, NoIgnoreFile, e.name, "linux")

\* C30: when the loop has dealt with a non-ignored CREATE notification for a directory
\* inside a recursive root, at the latest when it issues the debounce Add for it, the
\* directory is in the watched set and registered with the OS facility, so that files
\* created in it from then on are reported.
C30_LiveRegistration ==
    (CreatedDir(ev) /\ epc \in {"skipped", "debounce"}) =>
        (ev.name \in watched /\ ev.name \in registered)

(***************************************************************************)
(* Watched set: claims                                                     *)
(***************************************************************************)
\* path b is the directory a or lies below it, by path segments
Under(a, b) == b = a \/ HasPrefix(b, a \o <<"/">>)

\* C31: every path of the watched set is a configured watch root or lies, by path
\* segments, under a watch root configured as recursive; a directory created outside
\* every recursive root is never added.
C31_WatchedMembership ==
    \A p \in watched :
        \E w \in 1..Len(EventsWatch) :
            \/ p = EventsWatch[w].Path
            \/ EventsWatch[w].Recursive /\ Under(EventsWatch[w].Path, p)

\* C32: no path of the watched set is one for which shouldIgnore returns true, however
\* it was added: as a configured root, by the recursive walk or by a CREATE
\* notification.
C32_WatchedNotIgnored ==
    \A p \in watched : ~shouldIgnore(EventsWatch, NoIgnoreFile, p, "linux")

\* C33, as stated: w.fsWatcher.Add is called at most once for every path.
C33_AddAtMostOnce ==
    \A p \in DOMAIN osCalls : osCalls[p] <= 1

\* C33, amended: w.fsWatcher.Add is never called for a path that is in the watched
\* set, so it succeeds at most once for every path; a path is inserted only by a step
\* that calls it for that path, a step that calls it without inserting leaves the set
\* as it was, and no path is ever removed.
C33_IdempotentRegistration ==
    [][/\ watched \subseteq watched'
       /\ \A p \in DOMAIN osCalls :
             /\ p \in watched => osCalls'[p] = osCalls[p]
             /\ osCalls'[p] <= osCalls[p] + 1
             /\ (p \in watched' /\ p \notin watched) => osCalls'[p] = osCalls[p] + 1]_vars

\* a registration that failed has been repeated by a later addSingle and has
\* succeeded, and the loop has met the path again after that
C33_Witness ==
    \E p \in watched :
        /\ osCalls[p] = 2
        /\ epc = "debounce"
        /\ ev.name = p
        /\ RegistersDir(ev)
        /\ Len(addKey) = 2

\* no directory between the directory a and its descendant d, both included, is
\* ignored
OpenWay(a, d) ==
    \A e \in InitialDirs :
        (Under(a, e) /\ Under(e, d)) => ~shouldIgnore(EventsWatch, NoIgnoreFile, e, "linux")

\* C34: once Start has registered the roots, a directory of the tree of a recursive
\* root is in the watched set exactly if no directory on the way from the root to it
\* is ignored: the descendants of an ignored directory are left out, every directory
\* reachable through directories that are not ignored is in.
C34_RecursivePrune ==
    epc \notin {"off", "start", "failed"} =>
        \A w \in 1..Len(EventsWatch) :
            EventsWatch[w].Recursive =>
                \A d \in InitialDirs :
                    Under(EventsWatch[w].Path, d) =>
                        (d \in watched <=> OpenWay(EventsWatch[w].Path, d))

\* Start has returned: /n/w/a is watched, /n/w/.g/s, which no rule matches but which
\* lies in the ignored /n/w/.g, is not
C34_Witness ==
    /\ epc = "recv"
    /\ RootRec \o <<"/", "a">> \in watched
    /\ RootRec \o <<"/", ".", "g", "/", "s">> \notin watched
    /\ ~shouldIgnore(EventsWatch, NoIgnoreFile, RootRec \o <<"/", ".", "g", "/", "s">>, "linux")

(***************************************************************************)
(* shouldIgnore: the scope of the configured patterns                      *)
(***************************************************************************)
\* the watch roots of the configuration the path belongs to
OwningRoots(watch, path) == {w \in 1..Len(watch) : Under(watch[w].Path, path)}

\* C37: a configured ignore pattern takes effect only for paths of its own watch
\* root: a path that belongs to watch roots none of which has a pattern, and that no
\* built-in rule matches, is not ignored, whatever the patterns of the other roots.
C37_RootScopedIgnore ==
    (/\ ignDone
     /\ ignIn.goos = "linux"
     /\ ~IsDotfile(Base(ignIn.path, ignIn.goos))
     /\ OwningRoots(ignIn.watch, ignIn.path) # {}
     /\ \A w \in OwningRoots(ignIn.watch, ignIn.path) : ignIn.watch[w].Ignore = <<>>)
        => ~ignOut

(***************************************************************************)
(* runWatch: claims                                                        *)
(***************************************************************************)
\* the commands whose process is running
RunningCmds == {i \in Cmds : proc[i] = "running"}

\* C39: the loop of runWatch calls Run once for every change event it receives, and it
\* receives the next event only when the Run of the previous one has returned and no
\* command of it is running any more, so that Runs never overlap; at any time at most
\* MaxConcurrency commands are running, at most one in sequential mode.
C39_SerialisedRuns ==
    /\ [](runCalls = eventCount)
    /\ [](Cardinality(RunningCmds) <= IF rcfg.sequential THEN 1 ELSE rcfg.MaxConcurrency)
    /\ [][eventCount' # eventCount =>
             /\ rpc = "returned" /\ RunningCmds = {}
             /\ eventCount' = eventCount + 1
             /\ runCalls' = runCalls + 1]_vars

\* the Run of the second event is in progress: one command is running and holds the
\* only slot, another one waits for it
C39_Witness ==
    /\ eventCount = 2 /\ runCalls = 2
    /\ rpc = "par"
    /\ Cardinality(RunningCmds) = rcfg.MaxConcurrency
    /\ \E i \in Cmds : wpc[i] = "select"

====
